---- MODULE Spec2Model ----
(***************************************************************************)
(* Model of the lightning-faucet bootstrap layer: the embedded resource    *)
(* store (internal/static/static.go) and the server launcher (func main).  *)
(* The launcher is a sequential process whose position is pc; listeners,   *)
(* HTTP requests, TLS handshakes, the interrupt signal and calls of        *)
(* static.Add are the environment that runs concurrently with it.          *)
(***************************************************************************)
EXTENDS Integers, Sequences, FiniteSets, TLC

VARIABLES
    cfg,        \* the configuration returned by loadConfig
    cfgErr,     \* whether loadConfig returns an error
    closeErr,   \* whether faucet.CloseAllChannels returns an error
    fsys,       \* directory name -> (file name -> content) on disk
    assets,     \* storage.assets    (path -> content)
    templates,  \* storage.templates (path -> content)
    addLog,     \* history: the calls of static.Add so far, in order
    pc,         \* position of main
    exit,       \* <<>> while the process runs, <<[code, by]>> once it ended
    faucetTemplates, \* the compiled template set: <<>>, or
                \* <<[names, funcs, body]>> (body: template name -> content)
    routes,     \* the routes registered on the mux router r, in order
    installed,  \* history: <<>>, or <<the asset paths of the store when the
                \* static routes were installed>>
    defaultMux, \* whether http.Handle("/", r) has run
    listeners,  \* the listeners main has started, in order
    sigNotify,  \* whether signal.Notify(c, os.Interrupt) has run
    sigChan,    \* number of signals buffered in c (capacity 1)
    sigAt,      \* history: launcher state at the first interrupt, or "none"
    trail,      \* history: the launcher states entered so far
    resp,       \* the response to the most recent HTTP request, or <<>>
    hs,         \* TLS handshakes in progress: id -> [pc, name, result]
    mstate,     \* autocert Manager.state: domain -> "locked"|"ready"|"failed"
    cache,      \* autocert DirCache("certs"): the domains with a stored cert
    tokens      \* pending http-01 challenge tokens of the Manager

vars == <<cfg, cfgErr, closeErr, fsys, assets, templates, addLog, pc, exit,
          faucetTemplates, routes, installed, defaultMux, listeners, sigNotify,
          sigChan, sigAt, trail, resp, hs, mstate, cache, tokens>>

storeVars  == <<assets, templates, addLog>>
envVars    == <<cfg, cfgErr, closeErr, fsys>>
sigVars    == <<sigNotify, sigChan, sigAt>>
tlsVars    == <<hs, mstate, cache, tokens>>

----------------------------------------------------------------------------
(* Bounds of the model. *)

\* Calls of static.Add explored in one behaviour.
MaxAdds == 2

\* Concurrent TLS handshakes explored in one behaviour.
NumHandshakes == 2

----------------------------------------------------------------------------
(* Values. *)

\* File contents. TplBroken does not parse; TplEqual parses only in a set
\* that has the "equal" function registered.
TplPlain  == "<p>hi</p>"
TplBroken == "{{"
TplEqual  == "{{if equal .A .B}}y{{end}}"
CssBody   == "body{}"

CssOther  == "p{}"

Paths == {"/a.css", "/index.html"}

\* cfg.Domain and cfg.BindAddr in every configuration explored.
Domain   == "faucet.example"
BindAddr == ":80"

EmptyMap == [p \in {} |-> ""]

\* m with key k bound to v (a Go map assignment m[k] = v).
MapSet(m, k, v) == [x \in (DOMAIN m) \cup {k} |-> IF x = k THEN v ELSE m[x]]

----------------------------------------------------------------------------
(* internal/static/static.go *)

\* newStorage: both maps empty.
newStorage == [assets |-> EmptyMap, templates |-> EmptyMap]

\* A plausible slip in storage.Add: the branches test the wrong word, so a
\* "template" entry lands in (and overwrites) the assets map.
storageAddWrongBranch(s, filetype, filepath, content) ==
    IF filetype # "static-file"
    THEN [s EXCEPT !.assets   = MapSet(s.assets, filepath, content)]
    ELSE [s EXCEPT !.templates = MapSet(s.templates, filepath, content)]

\* storage.Add: "static" goes to assets, every other filetype to templates.
storageAdd(s, filetype, filepath, content) ==
    IF filetype = "static"
    THEN [s EXCEPT !.assets   = MapSet(s.assets, filepath, content)]
    ELSE [s EXCEPT !.templates = MapSet(s.templates, filepath, content)]

\* The package-level storage s, as the two variables that hold its maps.
TheStore == [assets |-> assets, templates |-> templates]

\* static.Assets() and static.Templates(): the live maps, not copies.
Assets    == assets
Templates == templates

----------------------------------------------------------------------------
(* The launcher: func main. *)

\* The five states of the launcher, as positions of main.
\*   Unstarted        until http.Handle("/", r) has run (line 130)
\*   RoutesRegistered while main starts the listeners (lines 132-180)
\*   Listening        the listeners are started and main is blocked: in <-c
\*                    (insecure mode) or inside ListenAndServeTLS (secure mode)
\*   ShuttingDown     <-c has returned
\*   Stopped          the process has ended
LauncherStateOf(p) ==
    CASE p \in {"loadConfig", "templates", "newFaucet", "wipe", "start",
                "routes", "static", "handle"}   -> "Unstarted"
      [] p \in {"listen", "tls", "notify"}       -> "RoutesRegistered"
      [] p \in {"wait", "servingTLS"}            -> "Listening"
      [] p = "unblocked"                         -> "ShuttingDown"
      [] OTHER                                   -> "Stopped"

LauncherState == LauncherStateOf(pc)

Running == exit = <<>>

\* main moves to position p.
Goto(p) ==
    /\ pc' = p
    /\ trail' = IF LauncherStateOf(p) # LauncherStateOf(pc)
                THEN Append(trail, LauncherStateOf(p)) ELSE trail

\* The process ends with the given exit code: by "return" from main,
\* "os.Exit", a "panic", or the runtime's default action on a "signal"; "at"
\* records the position of main when it ended.
Terminate(code, by) ==
    /\ Goto("exited")
    /\ exit' = <<[code |-> code, by |-> by, at |-> pc]>>

\* html/template's Parse on one template body, given the registered
\* functions: "{{" is a syntax error, a call of an unregistered function is
\* a parse error ("function ... not defined").
ParseOK(content, funcs) ==
    /\ content # TplBroken
    /\ content = TplEqual => "equal" \in funcs

\* filepath[1:] of line 58.
StripLeading(filepath) == SubSeq(filepath, 2, Len(filepath))

\* Values passed to templates: pointers (addr) to structures (val).
Values ==
    {[addr |-> 1, val |-> "a"], [addr |-> 2, val |-> "a"],
     [addr |-> 3, val |-> "b"]}

\* Lines 25-27: equal is reflect.DeepEqual, which follows pointers: the same
\* pointer, or pointers to deeply equal structures.
equal(x, y) == x.addr = y.addr \/ x.val = y.val

\* The result of a template resolution: <<>> when it failed, else the set.
TemplateSet(funcs, body) ==
    <<[names |-> {"faucet"} \cup DOMAIN body, funcs |-> funcs,
       body |-> body]>>

\* Lines 49-53: template.New("faucet").Funcs({"equal": equal}).ParseGlob on
\* the files of a directory: each file becomes the template named by its
\* base name; no matching file, or a file that does not parse, is an error.
ParseGlobResult(files) ==
    IF \/ files = EmptyMap
       \/ \E f \in DOMAIN files : ~ParseOK(files[f], {"equal"})
    THEN <<>>
    ELSE TemplateSet({"equal"}, files)

\* Lines 56-64: template.New("faucet").Parse("") and then, for every entry
\* of the store, New(filepath[1:]).Parse(content); no function is
\* registered. The first entry that does not parse is an error.
ParseStoreResult(tpls) ==
    IF \E f \in DOMAIN tpls : ~ParseOK(tpls[f], {})
    THEN <<>>
    ELSE TemplateSet({},
            [n \in {StripLeading(f) : f \in DOMAIN tpls} |->
                tpls[CHOOSE f \in DOMAIN tpls : StripLeading(f) = n]])

\* ExecuteTemplate of a set for a template name and data [A, B]: the body
\* with its actions evaluated, or an error for a name the set does not have.
ExecuteTemplate(ts, name, data) ==
    IF name \notin DOMAIN ts.body THEN "error: no such template"
    ELSE IF ts.body[name] = TplEqual
         THEN (IF equal(data.A, data.B) THEN "y" ELSE "")
         ELSE ts.body[name]

\* Lines 38-41: loadConfig; on error main returns.
MainLoadConfig ==
    /\ Running /\ pc = "loadConfig"
    /\ IF cfgErr THEN Terminate(0, "return") /\ UNCHANGED faucetTemplates
       ELSE Goto("templates") /\ UNCHANGED <<exit, faucetTemplates>>
    /\ UNCHANGED <<envVars, storeVars, routes, installed, defaultMux,
                   listeners, sigVars, resp, tlsVars>>

\* Lines 48-53: local-directory mode. ParseGlob reads the pattern
\* templates/*.html (the literal directory name "templates"); template.Must
\* panics when no file matches or a file does not parse.
MainParseGlob ==
    /\ Running /\ pc = "templates" /\ cfg.TemplatesDir # ""
    /\ LET set == ParseGlobResult(fsys["templates"])
       IN IF set = <<>>
          THEN Terminate(2, "panic") /\ UNCHANGED faucetTemplates
          ELSE /\ faucetTemplates' = set
               /\ Goto("newFaucet") /\ UNCHANGED exit
    /\ UNCHANGED <<envVars, storeVars, routes, installed, defaultMux,
                   listeners, sigVars, resp, tlsVars>>

\* Lines 60-63: a template of the store does not parse: log, then return.
StoreParseFailure == Terminate(0, "return")

\* Lines 55-65: store mode. The set starts from the empty template "faucet"
\* with no function registered; every entry of static.Templates() is parsed
\* under its path without the first character.
MainParseStore ==
    /\ Running /\ pc = "templates" /\ cfg.TemplatesDir = ""
    /\ LET set == ParseStoreResult(Templates)
       IN IF set = <<>>
          THEN StoreParseFailure /\ UNCHANGED faucetTemplates
          ELSE /\ faucetTemplates' = set
               /\ Goto("newFaucet") /\ UNCHANGED exit
    /\ UNCHANGED <<envVars, storeVars, routes, installed, defaultMux,
                   listeners, sigVars, resp, tlsVars>>

\* Lines 68-73: newLightningFaucet (external); on error os.Exit(1).
MainNewFaucet ==
    /\ Running /\ pc = "newFaucet"
    /\ \E ok \in BOOLEAN :
         IF ok THEN Goto("wipe") /\ UNCHANGED exit
         ELSE Terminate(1, "os.Exit")
    /\ UNCHANGED <<envVars, storeVars, faucetTemplates, routes, installed,
                   defaultMux, listeners, sigVars, resp, tlsVars>>

\* A plausible slip at lines 78-87: the return of line 86 is missing, so
\* after a successful wipe main goes on to start the faucet.
MainWipeChannelsFallsThrough ==
    /\ Running /\ pc = "wipe"
    /\ IF cfg.WipeChannels /\ closeErr
       THEN Terminate(1, "os.Exit")
       ELSE Goto("start") /\ UNCHANGED exit
    /\ UNCHANGED <<envVars, storeVars, faucetTemplates, routes, installed,
                   defaultMux, listeners, sigVars, resp, tlsVars>>

\* Lines 78-87: with WipeChannels set, CloseAllChannels (external) and end:
\* os.Exit(1) on error, return otherwise.
MainWipeChannels ==
    /\ Running /\ pc = "wipe"
    /\ IF cfg.WipeChannels
       THEN IF closeErr
            THEN Terminate(1, "os.Exit") ELSE Terminate(0, "return")
       ELSE Goto("start") /\ UNCHANGED exit
    /\ UNCHANGED <<envVars, storeVars, faucetTemplates, routes, installed,
                   defaultMux, listeners, sigVars, resp, tlsVars>>

\* Line 91: faucet.Start(cfg) (external, no state of this slice).
MainStart ==
    /\ Running /\ pc = "start"
    /\ Goto("routes")
    /\ UNCHANGED <<envVars, storeVars, exit, faucetTemplates, routes,
                   installed, defaultMux, listeners, sigVars, resp, tlsVars>>

Route(kind, tpl, methods, h) ==
    [kind |-> kind, tpl |-> tpl, methods |-> methods, h |-> h]

\* A plausible slip at line 100: || in place of &&, so the tools route is
\* dropped as soon as one of the two actions is disabled.
BusinessRoutesEitherDisabled(c) ==
    <<Route("path", "/", {"POST", "GET"}, "faucetHome"),
      Route("path", "/info", {"GET"}, "infoPage")>>
    \o (IF ~(c.DisableGenerateInvoices \/ c.DisablePayInvoices)
        THEN <<Route("path", "/tools", {"POST", "GET"}, "toolsPage")>>
        ELSE <<>>)

\* Lines 95-102: the business routes on a new router.
BusinessRoutes(c) ==
    <<Route("path", "/", {"POST", "GET"}, "faucetHome"),
      Route("path", "/info", {"GET"}, "infoPage")>>
    \o (IF ~(c.DisableGenerateInvoices /\ c.DisablePayInvoices)
        THEN <<Route("path", "/tools", {"POST", "GET"}, "toolsPage")>>
        ELSE <<>>)

MainRoutes ==
    /\ Running /\ pc = "routes"
    /\ routes' = BusinessRoutes(cfg)
    /\ Goto("static")
    /\ UNCHANGED installed
    /\ UNCHANGED <<envVars, storeVars, exit, faucetTemplates, defaultMux,
                   listeners, sigVars, resp, tlsVars>>

\* The paths of a set, in some order (Go's map iteration order is not fixed).
RECURSIVE SeqOfSet(_)
SeqOfSet(S) ==
    IF S = {} THEN <<>>
    ELSE LET x == CHOOSE y \in S : TRUE IN <<x>> \o SeqOfSet(S \ {x})

\* Lines 107-110: local-directory mode, one catch-all route.
MainStaticDir ==
    /\ Running /\ pc = "static" /\ cfg.StaticDir # ""
    /\ routes' = Append(routes, Route("prefix", "/static/", {}, "fileServer"))
    /\ installed' = <<DOMAIN Assets>>
    /\ Goto("handle")
    /\ UNCHANGED <<envVars, storeVars, exit, faucetTemplates, defaultMux,
                   listeners, sigVars, resp, tlsVars>>

\* Line 114: the route pattern of one asset key.
StaticPattern(filepath) == "/static" \o filepath

\* A plausible slip at lines 113-114: one catch-all route for the blob
\* handler in place of one route per key.
MainStaticStoreCatchAll ==
    /\ Running /\ pc = "static" /\ cfg.StaticDir = ""
    /\ routes' = Append(routes, Route("prefix", "/static/", {}, "staticBlob"))
    /\ installed' = <<DOMAIN Assets>>
    /\ Goto("handle")
    /\ UNCHANGED <<envVars, storeVars, exit, faucetTemplates, defaultMux,
                   listeners, sigVars, resp, tlsVars>>

\* Lines 111-126: store mode, one route per key of static.Assets() now.
MainStaticStore ==
    /\ Running /\ pc = "static" /\ cfg.StaticDir = ""
    /\ LET keys == SeqOfSet(DOMAIN Assets)
       IN routes' = routes \o
            [i \in 1..Len(keys) |->
                Route("path", StaticPattern(keys[i]), {}, "staticBlob")]
    /\ installed' = <<DOMAIN Assets>>
    /\ Goto("handle")
    /\ UNCHANGED <<envVars, storeVars, exit, faucetTemplates, defaultMux,
                   listeners, sigVars, resp, tlsVars>>

\* Line 130: http.Handle("/", r).
MainHandle ==
    /\ Running /\ pc = "handle"
    /\ defaultMux' = TRUE
    /\ Goto("listen")
    /\ UNCHANGED <<envVars, storeVars, exit, faucetTemplates, routes,
                   installed, listeners, sigVars, resp, tlsVars>>

Listener(kind, addr, handler, bg) ==
    [kind |-> kind, addr |-> addr, handler |-> handler, bg |-> bg,
     status |-> "started"]

\* A plausible slip at line 134: the listener is started without "go", so it
\* runs in the foreground of main.
InsecureListenerForeground(c) == Listener("plain", c.BindAddr, "router", FALSE)

\* Line 134: go http.ListenAndServe(cfg.BindAddr, r).
InsecureListener(c) == Listener("plain", c.BindAddr, "router", TRUE)

\* Line 152: go http.ListenAndServe(cfg.BindAddr, m.HTTPHandler(nil)).
RedirectListener(c) == Listener("plain", c.BindAddr, "acmeHTTP", TRUE)

\* Lines 155-173: the server on ":https" with handler r, run by main itself.
TLSListener(c) == Listener("tls", ":https", "router", FALSE)

\* A plausible slip: the block of lines 132-134 stands before the static
\* routes, so the plain listener is started while routes are still added.
MainListenInsecureEarly ==
    /\ Running /\ pc = "static" /\ ~cfg.UseLeHTTPS /\ listeners = <<>>
    /\ listeners' = Append(listeners, InsecureListener(cfg))
    /\ UNCHANGED <<pc, trail>>
    /\ UNCHANGED <<envVars, storeVars, exit, faucetTemplates, routes,
                   installed, defaultMux, sigVars, resp, tlsVars>>

\* Lines 132-134: insecure mode.
MainListenInsecure ==
    /\ Running /\ pc = "listen" /\ ~cfg.UseLeHTTPS
    /\ listeners' = Append(listeners, InsecureListener(cfg))
    /\ Goto("notify")
    /\ UNCHANGED <<envVars, storeVars, exit, faucetTemplates, routes,
                   installed, defaultMux, sigVars, resp, tlsVars>>

\* A plausible slip at line 152: the challenge/redirect listener is never
\* started and main goes straight to the TLS server.
MainListenRedirectOmitted ==
    /\ Running /\ pc = "listen" /\ cfg.UseLeHTTPS
    /\ Goto("tls")
    /\ UNCHANGED <<envVars, storeVars, exit, faucetTemplates, routes,
                   installed, defaultMux, listeners, sigVars, resp, tlsVars>>

\* Lines 135-152: secure mode, the certificate manager and the background
\* challenge/redirect listener.
MainListenRedirect ==
    /\ Running /\ pc = "listen" /\ cfg.UseLeHTTPS
    /\ listeners' = Append(listeners, RedirectListener(cfg))
    /\ Goto("tls")
    /\ UNCHANGED <<envVars, storeVars, exit, faucetTemplates, routes,
                   installed, defaultMux, sigVars, resp, tlsVars>>

\* Line 173: main calls httpServer.ListenAndServeTLS and stays inside it.
MainListenTLS ==
    /\ Running /\ pc = "tls"
    /\ listeners' = Append(listeners, TLSListener(cfg))
    /\ Goto("servingTLS")
    /\ UNCHANGED <<envVars, storeVars, exit, faucetTemplates, routes,
                   installed, defaultMux, sigVars, resp, tlsVars>>

\* A plausible slip at lines 173-176: the error of ListenAndServeTLS is
\* logged and main goes on to wait for the interrupt signal.
MainTLSReturnsLogged ==
    /\ Running /\ pc = "servingTLS"
    /\ listeners' = [listeners EXCEPT ![Len(listeners)].status = "failed"]
    /\ Goto("notify")
    /\ UNCHANGED <<envVars, storeVars, exit, faucetTemplates, routes,
                   installed, defaultMux, sigVars, resp, tlsVars>>

\* Lines 173-176: ListenAndServeTLS returns (it only ever returns an error:
\* the bind failed, or serving stopped); log and os.Exit(1).
MainTLSReturns ==
    /\ Running /\ pc = "servingTLS"
    /\ listeners' = [listeners EXCEPT ![Len(listeners)].status = "failed"]
    /\ Terminate(1, "os.Exit")
    /\ UNCHANGED <<envVars, storeVars, faucetTemplates, routes, installed,
                   defaultMux, sigVars, resp, tlsVars>>

\* Lines 179-180: the channel and signal.Notify.
MainNotify ==
    /\ Running /\ pc = "notify"
    /\ sigNotify' = TRUE
    /\ Goto("wait")
    /\ UNCHANGED <<envVars, storeVars, exit, faucetTemplates, routes,
                   installed, defaultMux, listeners, sigChan, sigAt, resp,
                   tlsVars>>

\* Line 181: <-c returns once a signal is buffered.
MainWait ==
    /\ Running /\ pc = "wait" /\ sigChan > 0
    /\ sigChan' = sigChan - 1
    /\ Goto("unblocked")
    /\ UNCHANGED <<envVars, storeVars, exit, faucetTemplates, routes,
                   installed, defaultMux, listeners, sigNotify, sigAt, resp,
                   tlsVars>>

\* Line 182: main returns; the process ends with code 0, listeners and
\* requests in flight are abandoned.
MainReturn ==
    /\ Running /\ pc = "unblocked"
    /\ Terminate(0, "return")
    /\ UNCHANGED <<envVars, storeVars, faucetTemplates, routes, installed,
                   defaultMux, listeners, sigVars, resp, tlsVars>>

----------------------------------------------------------------------------
(* The environment of main: listeners' goroutines and the interrupt. *)

\* A listener's socket is bound and it accepts connections.
ListenerBinds ==
    /\ Running
    /\ \E i \in 1..Len(listeners) :
         /\ listeners[i].status = "started"
         /\ listeners' = [listeners EXCEPT ![i].status = "serving"]
    /\ UNCHANGED <<envVars, storeVars, pc, exit, faucetTemplates, routes,
                   installed, defaultMux, sigVars, trail, resp, tlsVars>>

\* A plausible slip at lines 134 and 152: the goroutine passes the error of
\* http.ListenAndServe to log.Critical and os.Exit(1).
BackgroundListenerFailsFatal ==
    /\ Running
    /\ \E i \in 1..Len(listeners) :
         /\ listeners[i].bg /\ listeners[i].status # "failed"
         /\ listeners' = [listeners EXCEPT ![i].status = "failed"]
    /\ Terminate(1, "os.Exit")
    /\ UNCHANGED <<envVars, storeVars, faucetTemplates, routes, installed,
                   defaultMux, sigVars, resp, tlsVars>>

\* Lines 134 and 152: http.ListenAndServe returns an error inside its
\* goroutine (bind failure or a later accept error); the value is dropped.
BackgroundListenerFails ==
    /\ Running
    /\ \E i \in 1..Len(listeners) :
         /\ listeners[i].bg /\ listeners[i].status # "failed"
         /\ listeners' = [listeners EXCEPT ![i].status = "failed"]
    /\ UNCHANGED <<envVars, storeVars, pc, exit, faucetTemplates, routes,
                   installed, defaultMux, sigVars, trail, resp, tlsVars>>

\* The operating system delivers SIGINT. After signal.Notify it is sent to c
\* without blocking (dropped when c is full); before, the Go runtime's default
\* action ends the process, which is not an exit with code 0.
Interrupt ==
    /\ Running
    /\ sigAt' = IF sigAt = "none" THEN LauncherState ELSE sigAt
    /\ IF sigNotify
       THEN /\ sigChan' = 1
            /\ UNCHANGED <<pc, exit, trail>>
       ELSE /\ Terminate(2, "signal")
            /\ UNCHANGED sigChan
    /\ UNCHANGED <<envVars, storeVars, faucetTemplates, routes, installed,
                   defaultMux, listeners, sigNotify, resp, tlsVars>>

----------------------------------------------------------------------------
(* Calls of static.Add, and HTTP requests on the listeners. *)

AddCall(ft, p, c) == [filetype |-> ft, filepath |-> p, content |-> c]

\* The calls of Add explored: both namespaces, both paths, and two contents
\* for one path of each namespace.
AddCalls ==
    {AddCall("static", "/a.css", CssBody),
     AddCall("static", "/a.css", CssOther),
     AddCall("static", "/index.html", CssBody),
     AddCall("template", "/index.html", TplPlain),
     AddCall("template", "/index.html", TplBroken),
     AddCall("template", "/a.css", TplPlain)}

\* static.Add (lines 40-42): any caller may add an entry at any time.
Add ==
    /\ Running
    /\ Len(addLog) < MaxAdds
    /\ \E c \in AddCalls :
         LET s == storageAdd(TheStore, c.filetype, c.filepath, c.content)
         IN /\ assets' = s.assets
            /\ templates' = s.templates
            /\ addLog' = Append(addLog, c)
    /\ UNCHANGED <<envVars, pc, exit, faucetTemplates, routes, installed,
                   defaultMux, listeners, sigVars, trail, resp, tlsVars>>

Methods == {"GET", "POST"}

ChallengePrefix == "/.well-known/acme-challenge/"

ReqPaths ==
    {"/", "/tools", ChallengePrefix \o "tok", "/static/none.txt"}
    \cup {StaticPattern(p) : p \in Paths}

HasPrefix(str, pre) ==
    Len(str) >= Len(pre) /\ SubSeq(str, 1, Len(pre)) = pre

Response(status, body, location, by, src) ==
    [status |-> status, body |-> body, location |-> location, by |-> by,
     src |-> src]

\* mux.Router.Match: a route matches when its path pattern and its methods
\* match; the first such route in registration order serves the request.
\* With no such route the answer is 405 when some pattern matched the path,
\* 404 otherwise.
PathMatches(rt, path) ==
    IF rt.kind = "prefix" THEN HasPrefix(path, rt.tpl) ELSE path = rt.tpl

MethodMatches(rt, method) == rt.methods = {} \/ method \in rt.methods

RouteFor(rts, method, path) ==
    LET full == {i \in 1..Len(rts) :
                    PathMatches(rts[i], path) /\ MethodMatches(rts[i], method)}
    IN IF full # {} THEN rts[CHOOSE i \in full : \A j \in full : i <= j].h
       ELSE IF \E i \in 1..Len(rts) : PathMatches(rts[i], path)
            THEN "methodNotAllowed" ELSE "notFound"

\* A plausible slip at line 116: the prefix is cut one character too far.
staticBlobHandlerOffByOne(path) ==
    LET filepath == SubSeq(path, 9, Len(path))
    IN IF filepath \in DOMAIN Assets
       THEN Response(200, Assets[filepath], "", "staticBlob", "store")
       ELSE Response(200, "", "", "staticBlob", "none")

\* Lines 115-124: the handler of a store-mode static route. The key is the
\* URL path without its first 7 characters; the content is read from
\* static.Assets() when the request is served. Without an entry the handler
\* writes nothing (an empty 200 response).
staticBlobHandler(path) ==
    LET filepath == SubSeq(path, 8, Len(path))
    IN IF filepath \in DOMAIN Assets
       THEN Response(200, Assets[filepath], "", "staticBlob", "store")
       ELSE Response(200, "", "", "staticBlob", "none")

\* Lines 108-110: http.StripPrefix("/static/", http.FileServer(http.Dir(dir))).
\* The file server opens "/" + the rest of the path under the directory.
fileServerHandler(path) ==
    LET name  == "/" \o SubSeq(path, Len("/static/") + 1, Len(path))
        files == fsys[cfg.StaticDir]
    IN IF name \in DOMAIN files
       THEN Response(200, files[name], "", "fileServer", "dir")
       ELSE Response(404, "", "", "fileServer", "none")

\* The router r serving one request.
RouterServe(method, path) ==
    LET h == RouteFor(routes, method, path)
    IN CASE h = "staticBlob"       -> staticBlobHandler(path)
         [] h = "fileServer"       -> fileServerHandler(path)
         [] h = "notFound"         -> Response(404, "", "", h, "none")
         [] h = "methodNotAllowed" -> Response(405, "", "", h, "none")
         [] OTHER                  -> Response(200, "", "", h, "faucet")

\* Line 152: m.HTTPHandler(nil). A request under the challenge prefix is
\* answered with the pending token for that path, or 404. For every other
\* request the fallback runs; with a nil fallback that is autocert's
\* redirect handler: GET and HEAD are answered 302 Found with the https URL
\* of the same host and path, every other method 400 Bad Request.
acmeHTTPHandler(method, host, path) ==
    IF HasPrefix(path, ChallengePrefix)
    THEN IF path \in tokens
         THEN Response(200, "token", "", "acmeChallenge", "acme")
         ELSE Response(404, "", "", "acmeChallenge", "acme")
    ELSE IF method \in {"GET", "HEAD"}
         THEN Response(302, "", "https://" \o host \o path, "acmeRedirect", "acme")
         ELSE Response(400, "Use HTTPS", "", "acmeRedirect", "acme")

\* A plausible slip at lines 115-124: the handler memoises what it served
\* in the store, under the path of the request.
HTTPRequestWritesStore ==
    /\ Running
    /\ \E i \in 1..Len(listeners), method \in Methods, path \in ReqPaths :
         /\ listeners[i].status = "serving"
         /\ LET r == IF listeners[i].handler = "router"
                     THEN RouterServe(method, path)
                     ELSE acmeHTTPHandler(method, cfg.Domain, path)
            IN /\ resp' = <<[listener |-> i, method |-> method,
                             path |-> path, status |-> r.status,
                             body |-> r.body, location |-> r.location,
                             by |-> r.by, src |-> r.src]>>
               /\ assets' = IF r.src = "store"
                            THEN MapSet(assets, path, r.body) ELSE assets
    /\ UNCHANGED <<envVars, templates, addLog, pc, exit, faucetTemplates,
                   routes, installed, defaultMux, listeners, sigVars, trail,
                   tlsVars>>

\* One request, served at once by a listener that accepts connections.
HTTPRequest ==
    /\ Running
    /\ \E i \in 1..Len(listeners), method \in Methods, path \in ReqPaths :
         /\ listeners[i].status = "serving"
         /\ LET r == IF listeners[i].handler = "router"
                     THEN RouterServe(method, path)
                     ELSE acmeHTTPHandler(method, cfg.Domain, path)
            IN resp' = <<[listener |-> i, method |-> method, path |-> path,
                          status |-> r.status, body |-> r.body,
                          location |-> r.location, by |-> r.by,
                          src |-> r.src]>>
    /\ UNCHANGED <<envVars, storeVars, pc, exit, faucetTemplates, routes,
                   installed, defaultMux, listeners, sigVars, trail, tlsVars>>

----------------------------------------------------------------------------
(* TLS handshakes on the secure listener. Line 161 makes the manager's     *)
(* GetCertificate the certificate source of every handshake; lines 143-147 *)
(* give the manager the cache directory "certs" and the host policy        *)
(* autocert.HostWhitelist(cfg.Domain). What follows is GetCertificate of   *)
(* golang.org/x/crypto/acme/autocert for an ordinary (non-ALPN-challenge)  *)
(* hello: the manager's state and the cache are consulted first, the host  *)
(* policy only before a new certificate is requested ("HostPolicy ... does *)
(* not affect cached certs"), and a name has one state entry at a time.     *)

IdleHandshake == [pc |-> "idle", name |-> "", result |-> "none"]

OtherDomain == "evil.example"

ServerNames == {Domain, OtherDomain, ""}

ChallengeToken == ChallengePrefix \o "tok"

TLSServing ==
    \E i \in 1..Len(listeners) :
        listeners[i].kind = "tls" /\ listeners[i].status = "serving"

InProgress(h) == hs[h].pc \notin {"idle", "done"}

Finish(h, result) == hs' = [hs EXCEPT ![h].pc = "done", ![h].result = result]

\* A client hello with some server name reaches the TLS listener.
HandshakeHello ==
    /\ Running /\ TLSServing
    /\ \E h \in 1..NumHandshakes, name \in ServerNames :
         /\ hs[h].pc = "idle"
         /\ hs' = [hs EXCEPT ![h] = [pc |-> "hello", name |-> name,
                                     result |-> "none"]]
    /\ UNCHANGED <<envVars, storeVars, pc, exit, faucetTemplates, routes,
                   installed, defaultMux, listeners, sigVars, trail, resp,
                   mstate, cache, tokens>>

\* GetCertificate up to Manager.cert: a hello without server name is refused;
\* under the state mutex, a name with a state entry waits for that entry, a
\* name with a certificate in the cache gets a ready state entry and is
\* served, any other name is a cache miss.
GetCertificate ==
    /\ Running
    /\ \E h \in 1..NumHandshakes :
         /\ hs[h].pc = "hello"
         /\ LET name == hs[h].name
            IN IF name = ""
               THEN Finish(h, "rejected") /\ UNCHANGED mstate
               ELSE IF name \in DOMAIN mstate
               THEN hs' = [hs EXCEPT ![h].pc = "waitState"] /\ UNCHANGED mstate
               ELSE IF name \in cache
               THEN Finish(h, "served") /\ mstate' = MapSet(mstate, name, "ready")
               ELSE hs' = [hs EXCEPT ![h].pc = "policy"] /\ UNCHANGED mstate
    /\ UNCHANGED <<envVars, storeVars, pc, exit, faucetTemplates, routes,
                   installed, defaultMux, listeners, sigVars, trail, resp,
                   cache, tokens>>

\* A plausible slip at line 146: no host policy (every host is allowed).
HostAllowedAlways(c, name) == TRUE

\* Line 146: autocert.HostWhitelist(cfg.Domain).
HostWhitelist(c, name) == name = c.Domain

\* GetCertificate after a cache miss: the host policy decides whether a new
\* certificate may be requested for the name.
HostPolicy ==
    /\ Running
    /\ \E h \in 1..NumHandshakes :
         /\ hs[h].pc = "policy"
         /\ IF HostWhitelist(cfg, hs[h].name)
            THEN hs' = [hs EXCEPT ![h].pc = "create"]
            ELSE Finish(h, "rejected")
    /\ UNCHANGED <<envVars, storeVars, pc, exit, faucetTemplates, routes,
                   installed, defaultMux, listeners, sigVars, trail, resp,
                   mstate, cache, tokens>>

\* Manager.certState, under the state mutex: whether the name has an entry.
\* Entries are kept per server name here; whether the package keeps them
\* per name or finer (one per name and key type, for the ECDSA and the RSA
\* suites of lines 163-170) is not visible in main.go, and no property
\* stated below depends on it.
certStateExists(name) == name \in DOMAIN mstate

\* Manager.createCert: the first handshake creates the locked state entry of
\* the name and goes on to acquire the certificate; any other waits for it.
CreateCert ==
    /\ Running
    /\ \E h \in 1..NumHandshakes :
         /\ hs[h].pc = "create"
         /\ IF certStateExists(hs[h].name)
            THEN /\ hs' = [hs EXCEPT ![h].pc = "waitState"]
                 /\ UNCHANGED mstate
            ELSE /\ hs' = [hs EXCEPT ![h].pc = "acquire"]
                 /\ mstate' = MapSet(mstate, hs[h].name, "locked")
    /\ UNCHANGED <<envVars, storeVars, pc, exit, faucetTemplates, routes,
                   installed, defaultMux, listeners, sigVars, trail, resp,
                   cache, tokens>>

\* Manager.authorizedCert, first half: the order is placed and the http-01
\* token is published for the plain listener's challenge path.
AcquireChallenge ==
    /\ Running
    /\ \E h \in 1..NumHandshakes :
         /\ hs[h].pc = "acquire"
         /\ hs' = [hs EXCEPT ![h].pc = "verify"]
    /\ tokens' = tokens \cup {ChallengeToken}
    /\ UNCHANGED <<envVars, storeVars, pc, exit, faucetTemplates, routes,
                   installed, defaultMux, listeners, sigVars, trail, resp,
                   mstate, cache>>

\* Manager.authorizedCert, second half: the authority issues the certificate
\* (it is stored in the cache and the state entry becomes ready) or the
\* acquisition fails (the entry stays, failed, until the retry delay ends).
AcquireEnds ==
    /\ Running
    /\ \E h \in 1..NumHandshakes, ok \in BOOLEAN :
         /\ hs[h].pc = "verify"
         /\ IF ok
            THEN /\ Finish(h, "served")
                 /\ mstate' = [mstate EXCEPT ![hs[h].name] = "ready"]
                 /\ cache' = cache \cup {hs[h].name}
            ELSE /\ Finish(h, "rejected")
                 /\ mstate' = [mstate EXCEPT ![hs[h].name] = "failed"]
                 /\ UNCHANGED cache
    /\ tokens' = tokens \ {ChallengeToken}
    /\ UNCHANGED <<envVars, storeVars, pc, exit, faucetTemplates, routes,
                   installed, defaultMux, listeners, sigVars, trail, resp>>

\* A handshake that found the state entry of its name reads it once the
\* creator has unlocked it: the certificate, or nothing when the acquisition
\* failed (also when the failed entry has been removed since).
WaitState ==
    /\ Running
    /\ \E h \in 1..NumHandshakes :
         /\ hs[h].pc = "waitState"
         /\ IF hs[h].name \in DOMAIN mstate
            THEN /\ mstate[hs[h].name] # "locked"
                 /\ Finish(h, IF mstate[hs[h].name] = "ready" THEN "served"
                              ELSE "rejected")
            ELSE Finish(h, "rejected")
    /\ UNCHANGED <<envVars, storeVars, pc, exit, faucetTemplates, routes,
                   installed, defaultMux, listeners, sigVars, trail, resp,
                   mstate, cache, tokens>>

\* The connection goes on with the certificate, or is closed.
HandshakeEnds ==
    /\ Running
    /\ \E h \in 1..NumHandshakes :
         /\ hs[h].pc = "done"
         /\ hs' = [hs EXCEPT ![h] = IdleHandshake]
    /\ UNCHANGED <<envVars, storeVars, pc, exit, faucetTemplates, routes,
                   installed, defaultMux, listeners, sigVars, trail, resp,
                   mstate, cache, tokens>>

\* The retry delay of a failed acquisition ends and the failed state entry
\* is removed, so that a later hello starts over.
RetryExpires ==
    /\ Running
    /\ \E name \in DOMAIN mstate :
         /\ mstate[name] = "failed"
         /\ mstate' = [n \in (DOMAIN mstate) \ {name} |-> mstate[n]]
    /\ UNCHANGED <<envVars, storeVars, pc, exit, faucetTemplates, routes,
                   installed, defaultMux, listeners, sigVars, trail, resp,
                   hs, cache, tokens>>

----------------------------------------------------------------------------
(* Initial states. *)

\* The configurations explored: every combination of the fields main reads.

Config(td, sd, wipe, https, dg, dp) ==
    [TemplatesDir |-> td, StaticDir |-> sd, WipeChannels |-> wipe,
     UseLeHTTPS |-> https, DisableGenerateInvoices |-> dg,
     DisablePayInvoices |-> dp, Domain |-> Domain, BindAddr |-> BindAddr]

AllConfigs ==
    {Config(td, sd, wipe, https, dg, dp) :
        td \in {"", "templates", "mytpl"}, sd \in {"", "static"},
        wipe \in BOOLEAN, https \in BOOLEAN, dg \in BOOLEAN, dp \in BOOLEAN}

\* The directories on disk: "templates" holds one file of any kind or none,
\* "mytpl" another file, "static" the asset files.
OneFile(name, content) == [f \in {name} |-> content]

FileSystems ==
    {[d \in {"templates", "mytpl", "static"} |->
        CASE d = "templates" -> t
          [] d = "mytpl"     -> OneFile("b.html", TplPlain)
          [] OTHER           -> OneFile("/a.css", "dir{}")] :
     t \in {EmptyMap, OneFile("index.html", TplPlain),
            OneFile("index.html", TplBroken),
            OneFile("index.html", TplEqual)}}

\* The store after the given calls of Add, from newStorage.
RECURSIVE Replay(_)
Replay(log) ==
    IF log = <<>> THEN newStorage
    ELSE LET c == log[Len(log)]
         IN storageAdd(Replay(SubSeq(log, 1, Len(log) - 1)),
                       c.filetype, c.filepath, c.content)

\* What the generated init() functions of package static may have added
\* before main starts.
SeedLogs ==
    {<<>>,
     <<AddCall("static", "/a.css", CssBody)>>,
     <<AddCall("template", "/index.html", TplPlain),
       AddCall("static", "/a.css", CssBody)>>,
     <<AddCall("template", "/index.html", TplBroken)>>,
     <<AddCall("template", "/index.html", TplEqual),
       AddCall("static", "/a.css", CssBody)>>}

InitWith(cfgs, errs, fss, seeds, caches) ==
    /\ cfg \in cfgs
    /\ cfgErr \in errs
    /\ closeErr \in (IF cfg.WipeChannels THEN BOOLEAN ELSE {FALSE})
    /\ fsys \in fss
    /\ addLog \in seeds
    /\ assets = Replay(addLog).assets
    /\ templates = Replay(addLog).templates
    /\ pc = "loadConfig"
    /\ exit = <<>>
    /\ faucetTemplates = <<>>
    /\ routes = <<>>
    /\ installed = <<>>
    /\ defaultMux = FALSE
    /\ listeners = <<>>
    /\ sigNotify = FALSE
    /\ sigChan = 0
    /\ sigAt = "none"
    /\ trail = <<"Unstarted">>
    /\ resp = <<>>
    /\ hs = [h \in 1..NumHandshakes |-> IdleHandshake]
    /\ mstate = EmptyMap
    /\ cache \in caches
    /\ tokens = {}

----------------------------------------------------------------------------
(* Spec: the launcher with its listeners and the interrupt signal. *)

Init == InitWith(AllConfigs, BOOLEAN, FileSystems, SeedLogs, {{}})

Main ==
    \/ MainLoadConfig
    \/ MainParseGlob
    \/ MainParseStore
    \/ MainNewFaucet
    \/ MainWipeChannels
    \/ MainStart
    \/ MainRoutes
    \/ MainStaticDir
    \/ MainStaticStore
    \/ MainHandle
    \/ MainListenInsecure
    \/ MainListenRedirect
    \/ MainListenTLS
    \/ MainTLSReturns
    \/ MainNotify
    \/ MainWait
    \/ MainReturn

Next ==
    \/ Main
    \/ ListenerBinds
    \/ BackgroundListenerFails
    \/ Interrupt

Spec == Init /\ [][Next]_vars

----------------------------------------------------------------------------
(* SpecHTTP: a launcher that resolves its templates from the store, in     *)
(* either mode, with HTTP requests on its listeners.                       *)

ServingConfigs ==
    {Config("", sd, FALSE, https, FALSE, FALSE) :
        sd \in {"", "static"}, https \in BOOLEAN}

NoTemplateDir == {fs \in FileSystems : fs["templates"] = EmptyMap}

InitHTTP == InitWith(ServingConfigs, {FALSE}, NoTemplateDir, SeedLogs, {{}})

MainServing ==
    \/ MainLoadConfig
    \/ MainParseStore
    \/ MainNewFaucet
    \/ MainWipeChannels
    \/ MainStart
    \/ MainRoutes
    \/ MainStaticDir
    \/ MainStaticStore
    \/ MainHandle

NextHTTP ==
    \/ MainServing
    \/ MainListenInsecure
    \/ MainListenRedirect
    \/ MainListenTLS
    \/ MainTLSReturns
    \/ MainNotify
    \/ ListenerBinds
    \/ BackgroundListenerFails
    \/ HTTPRequest

SpecHTTP == InitHTTP /\ [][NextHTTP]_vars

----------------------------------------------------------------------------
(* SpecStatic: the store and the static routes. Add is called at any time, *)
(* before and after main installs the routes, and requests are served by   *)
(* the router behind the plain listener.                                   *)

StaticConfigs ==
    {Config("", sd, FALSE, FALSE, FALSE, FALSE) : sd \in {"", "static"}}

InitStatic == InitWith(StaticConfigs, {FALSE}, NoTemplateDir, {<<>>}, {{}})

NextStatic ==
    \/ MainServing
    \/ MainListenInsecure
    \/ MainNotify
    \/ ListenerBinds
    \/ BackgroundListenerFails
    \/ Add
    \/ HTTPRequest

SpecStatic == InitStatic /\ [][NextStatic]_vars

----------------------------------------------------------------------------
(* SpecTLS: secure mode, with concurrent TLS handshakes. The cache         *)
(* directory may hold certificates from earlier runs, for any name.        *)

SecureConfigs ==
    {Config("", sd, FALSE, TRUE, FALSE, FALSE) : sd \in {"", "static"}}

InitTLS ==
    InitWith(SecureConfigs, {FALSE}, NoTemplateDir, {<<>>},
             SUBSET {Domain, OtherDomain})

NextTLS ==
    \/ MainServing
    \/ MainListenRedirect
    \/ MainListenTLS
    \/ MainTLSReturns
    \/ ListenerBinds
    \/ BackgroundListenerFails
    \/ HandshakeHello
    \/ GetCertificate
    \/ HostPolicy
    \/ CreateCert
    \/ AcquireChallenge
    \/ AcquireEnds
    \/ WaitState
    \/ HandshakeEnds
    \/ RetryExpires

SpecTLS == InitTLS /\ [][NextTLS]_vars

----------------------------------------------------------------------------
(* Claims about the launcher, checked under Spec. *)

Exited == exit # <<>>

\* A listener as it was started, whatever became of it since.
Started(l) == [l EXCEPT !.status = "started"]

\* C1: with secure mode off, no TLS listener and no challenge/redirect
\* listener is ever started, and a run that has reached Listening has started
\* exactly one listener: a plain one, in the background, on the configured
\* bind address, serving the shared router.
C1_InsecureOnePlainListener ==
    ~cfg.UseLeHTTPS =>
        /\ \A i \in 1..Len(listeners) :
              listeners[i].kind = "plain" /\ listeners[i].handler = "router"
        /\ Len(listeners) <= 1
        /\ (\E i \in 1..Len(trail) : trail[i] = "Listening") =>
              /\ Len(listeners) = 1
              /\ Started(listeners[1]) =
                    Listener("plain", cfg.BindAddr, "router", TRUE)

C1_Witness ==
    /\ ~cfg.UseLeHTTPS /\ pc = "wait"
    /\ Len(listeners) = 1 /\ listeners[1].status = "serving"

\* C2: with secure mode on, a run that has reached Listening has started
\* exactly two listeners: first the challenge/redirect plain listener, in the
\* background, then the TLS listener, in the foreground; whenever main is
\* about to call or is inside ListenAndServeTLS the background one has
\* already been started.
C2_SecureTwoListeners ==
    cfg.UseLeHTTPS =>
        /\ Len(listeners) <= 2
        /\ pc \in {"tls", "servingTLS"} =>
              /\ Len(listeners) >= 1
              /\ Started(listeners[1]) =
                    Listener("plain", cfg.BindAddr, "acmeHTTP", TRUE)
        /\ (\E i \in 1..Len(trail) : trail[i] = "Listening") =>
              /\ Len(listeners) = 2
              /\ Started(listeners[1]) =
                    Listener("plain", cfg.BindAddr, "acmeHTTP", TRUE)
              /\ Started(listeners[2]) =
                    Listener("tls", ":https", "router", FALSE)

C2_Witness ==
    /\ cfg.UseLeHTTPS /\ pc = "servingTLS"
    /\ Len(listeners) = 2
    /\ listeners[1].status = "serving" /\ listeners[2].status = "serving"

\* C4 (as claimed): in either mode, a process that received its first
\* interrupt while Listening ends by passing through ShuttingDown and
\* returning from main, with exit code 0.
C4_InterruptExitsZero ==
    (sigAt = "Listening" /\ Exited) =>
        /\ exit[1].code = 0 /\ exit[1].by = "return"
        /\ Len(trail) >= 2 /\ trail[Len(trail) - 1] = "ShuttingDown"

\* C5 (as claimed): a process that ended in template resolution or in the
\* construction of the core service ended with a non-zero exit code and never
\* started a listener.
C5_StartupFailureExitsNonZero ==
    (Exited /\ exit[1].by # "signal"
            /\ exit[1].at \in {"templates", "newFaucet"}) =>
        exit[1].code # 0 /\ listeners = <<>>

----------------------------------------------------------------------------
(* Claims about the plain listener of secure mode, checked under SpecHTTP. *)

Answered == resp # <<>>

\* C3 (as claimed): in secure mode every request on the plain listener is
\* answered by the certificate manager's handler, never by a route of the
\* shared router, and every request outside the challenge prefix, whatever
\* its method, is answered with a redirect to the https URL of the same path.
C3_PlainListenerRedirectsAll ==
    (cfg.UseLeHTTPS /\ Answered /\ listeners[resp[1].listener].kind = "plain") =>
        /\ resp[1].by \in {"acmeChallenge", "acmeRedirect"}
        /\ ~HasPrefix(resp[1].path, ChallengePrefix) =>
              /\ resp[1].status = 302
              /\ resp[1].location = "https://" \o cfg.Domain \o resp[1].path

----------------------------------------------------------------------------
(* Claims about the store and the static routes, checked under SpecStatic. *)

\* The asset path a request path stands for: "/static" followed by the path.
KeysOf(path) == {k \in Paths \cup {"/none.txt"} : path = StaticPattern(k)}

\* C6: in store mode, a GET of "/static" followed by an asset path that was
\* registered when the routes were installed is answered 200 with exactly
\* the bytes the store holds for that path; a GET of any other path is
\* answered without content of the store.
C6_StoreAssetServed ==
    [][(resp' # resp /\ cfg.StaticDir = "" /\ resp'[1].method = "GET") =>
          IF \E k \in installed[1] : resp'[1].path = StaticPattern(k)
          THEN \A k \in KeysOf(resp'[1].path) :
                  /\ resp'[1].status = 200
                  /\ resp'[1].src = "store"
                  /\ resp'[1].body = assets[k]
          ELSE resp'[1].src # "store" /\ resp'[1].body = ""]_vars

C6_Witness ==
    /\ cfg.StaticDir = "" /\ Answered
    /\ resp[1].method = "GET" /\ resp[1].path = "/static/a.css"
    /\ resp[1].status = 200 /\ resp[1].body = CssOther
    /\ "/index.html" \in DOMAIN assets /\ assets["/index.html"] = CssBody

\* The routes that serve static assets.
StaticRoutes ==
    {routes[i] : i \in {j \in 1..Len(routes) :
                           routes[j].h \in {"staticBlob", "fileServer"}}}

\* C7: once the static routes are installed the set of static routes never
\* changes, whatever is added to the store, and every response that carries
\* content of the store is for an asset path that was registered when the
\* routes were installed.
C7_RoutesAreSnapshot ==
    /\ [](Answered /\ resp[1].src = "store" =>
            /\ installed # <<>>
            /\ \E k \in installed[1] : resp[1].path = StaticPattern(k))
    /\ [][installed # <<>> =>
            /\ installed' = installed
            /\ StaticRoutes' = StaticRoutes]_vars

\* An asset added after installation under a new path, then requested.
C7_Witness ==
    /\ cfg.StaticDir = "" /\ installed # <<>>
    /\ "/index.html" \in DOMAIN assets /\ "/index.html" \notin installed[1]
    /\ "/a.css" \in installed[1]
    /\ Answered /\ resp[1].path = "/static/index.html" /\ resp[1].status = 404

\* The entry of a map at a path: <<content>>, or <<>> without one.
Entry(m, p) == IF p \in DOMAIN m THEN <<m[p]>> ELSE <<>>

NamespaceMap(ns) == IF ns = "static" THEN assets ELSE templates

\* The calls of the log for one namespace and path.
CallsFor(ns, p) ==
    {i \in 1..Len(addLog) :
        addLog[i].filetype = ns /\ addLog[i].filepath = p}

\* What the most recent Add for a namespace and path gave, if any.
LastWrite(ns, p) ==
    IF CallsFor(ns, p) = {} THEN <<>>
    ELSE <<addLog[CHOOSE i \in CallsFor(ns, p) :
                     \A j \in CallsFor(ns, p) : j <= i].content>>

\* C8: after any sequence of calls of Add each namespace holds, for each
\* path, exactly the content of the most recent Add for that namespace and
\* path; and a call of Add changes no entry but the one at its path in its
\* namespace.
C8_LastWriteWinsAndFrame ==
    /\ [](\A ns \in {"static", "template"}, p \in Paths :
            Entry(NamespaceMap(ns), p) = LastWrite(ns, p))
    /\ [](DOMAIN assets \subseteq Paths /\ DOMAIN templates \subseteq Paths)
    /\ [][LET c == addLog'[Len(addLog')]
          IN IF addLog' = addLog
             THEN assets' = assets /\ templates' = templates
             ELSE \A ns \in {"static", "template"}, p \in Paths :
                     (ns # c.filetype \/ p # c.filepath) =>
                        Entry(NamespaceMap(ns), p)' = Entry(NamespaceMap(ns), p)
         ]_vars

\* An entry that was overwritten.
C8_Witness ==
    /\ Len(addLog) = 2
    /\ addLog[1] = AddCall("static", "/a.css", CssBody)
    /\ addLog[2] = AddCall("static", "/a.css", CssOther)
    /\ assets = OneFile("/a.css", CssOther) /\ templates = EmptyMap

----------------------------------------------------------------------------
(* Claims about TLS handshakes, checked under SpecTLS. *)

----------------------------------------------------------------------------
(* Claims about template resolution, checked under Spec. *)

\* Template resolution has run in this process, with or without success.
Resolved ==
    \/ faucetTemplates # <<>>
    \/ Exited /\ exit[1].by \in {"return", "panic"}
              /\ exit[1].at = "templates"

TemplateData == [A : Values, B : Values]

\* C11 (as claimed): in local-directory mode and in store mode alike, a
\* compiled template set has the function "equal" registered, and a body
\* that calls it renders its true branch exactly when the two arguments have
\* the same structure.
C11_EqualRegisteredInBothModes ==
    faucetTemplates # <<>> =>
        /\ "equal" \in faucetTemplates[1].funcs
        /\ \A n \in DOMAIN faucetTemplates[1].body, d \in TemplateData :
              faucetTemplates[1].body[n] = TplEqual =>
                 ((ExecuteTemplate(faucetTemplates[1], n, d) = "y")
                     = (d.A.val = d.B.val))

\* The store's template namespace holds the files of a directory: every
\* file under the key "/" followed by its name, with the same content.
Corresponding(files, tpls) ==
    /\ DOMAIN tpls = {"/" \o f : f \in DOMAIN files}
    /\ \A f \in DOMAIN files : tpls["/" \o f] = files[f]

\* Two resolutions have the same outcome: both failed, or both gave a set
\* and the two sets render every template the same for the same data.
SameOutcome(a, b) ==
    /\ (a = <<>>) = (b = <<>>)
    /\ (a # <<>> /\ b # <<>>) =>
          \A n \in (DOMAIN a[1].body) \cup (DOMAIN b[1].body),
             d \in TemplateData :
                ExecuteTemplate(a[1], n, d) = ExecuteTemplate(b[1], n, d)

\* C12 (as claimed): when the store holds the same templates as the
\* directory that local-directory mode reads, the resolution this process
\* has run, in whichever mode, has the same outcome as the resolution of the
\* other mode: both fail, or both give sets that render identically.
C12_ModesSameOutcome ==
    (Resolved /\ cfg.TemplatesDir \in {"", "templates"}
              /\ Corresponding(fsys["templates"], Templates)) =>
        LET dir   == ParseGlobResult(fsys["templates"])
            store == ParseStoreResult(Templates)
        IN /\ faucetTemplates = IF cfg.TemplatesDir # "" THEN dir ELSE store
           /\ SameOutcome(dir, store)

----------------------------------------------------------------------------
(* More claims about the launcher, checked under Spec. *)

\* The foreground TLS listener has failed: it could not bind, or it stopped
\* serving with an error.
TLSFailed(ls) ==
    \E i \in 1..Len(ls) : ls[i].kind = "tls" /\ ls[i].status = "failed"

\* C13: in secure mode, the step in which the foreground TLS listener fails
\* (before or after its socket was bound) is the step in which the process
\* exits, with exit code 1 by os.Exit, whether or not an interrupt was ever
\* received; so a failed TLS listener is only ever seen in an exited process.
C13_TLSFailureExitsNonZero ==
    /\ [](TLSFailed(listeners) =>
            /\ cfg.UseLeHTTPS /\ Exited
            /\ exit[1].code # 0 /\ exit[1].by = "os.Exit"
            /\ exit[1].at = "servingTLS")
    /\ [][(TLSFailed(listeners') /\ ~TLSFailed(listeners)) =>
            /\ ~Exited /\ Exited'
            /\ sigChan' = sigChan /\ sigAt' = sigAt]_vars

\* The TLS listener failed while serving, and no interrupt was ever sent.
C13_Witness ==
    /\ cfg.UseLeHTTPS /\ TLSFailed(listeners) /\ sigAt = "none"
    /\ Exited /\ exit[1].code = 1
    /\ listeners[1].status = "serving"

\* The position of a launcher state in the order of the state machine.
Rank(st) ==
    CASE st = "Unstarted"        -> 1
      [] st = "RoutesRegistered" -> 2
      [] st = "Listening"        -> 3
      [] st = "ShuttingDown"     -> 4
      [] OTHER                   -> 5

\* C14: the states the launcher has entered are in the order Unstarted,
\* RoutesRegistered, Listening, ShuttingDown, Stopped (states may be left
\* out, none is entered twice or after a later one); when a listener has
\* been started the templates are resolved, the static routes installed,
\* the business routes attached and the router handed to http; no step
\* changes the routes once a listener has been started; and nothing
\* happens in a process that has stopped.
C14_ForwardOnly ==
    /\ [](/\ trail[Len(trail)] = LauncherState
          /\ \A i \in 1..(Len(trail) - 1) :
                Rank(trail[i]) < Rank(trail[i + 1]))
    /\ [](listeners # <<>> =>
            /\ faucetTemplates # <<>>
            /\ installed # <<>>
            /\ Len(routes) >= Len(BusinessRoutes(cfg))
            /\ SubSeq(routes, 1, Len(BusinessRoutes(cfg)))
                  = BusinessRoutes(cfg)
            /\ defaultMux
            /\ trail[1] = "Unstarted" /\ Len(trail) >= 2
            /\ trail[2] = "RoutesRegistered")
    /\ [][listeners # <<>> => routes' = routes]_vars
    /\ [][~Exited]_vars

\* A run through all five states.
C14_Witness ==
    trail = <<"Unstarted", "RoutesRegistered", "Listening", "ShuttingDown",
              "Stopped">>

\* C15: with WipeChannels set no route is ever registered and no listener
\* ever started; the step main takes at the wipe ends the process, and a
\* process that ended there ended with code 0 when CloseAllChannels
\* succeeded and with code 1 when it failed.
C15_WipeOnly ==
    /\ [](cfg.WipeChannels =>
            /\ routes = <<>> /\ listeners = <<>> /\ ~defaultMux
            /\ (Exited /\ exit[1].at = "wipe" /\ exit[1].by # "signal") =>
                  exit[1].code = (IF closeErr THEN 1 ELSE 0))
    /\ [][(cfg.WipeChannels /\ pc = "wipe" /\ pc' # pc) => Exited']_vars

\* A wipe that failed.
C15_Witness ==
    /\ cfg.WipeChannels /\ closeErr
    /\ Exited /\ exit[1].at = "wipe" /\ exit[1].code = 1
    /\ routes = <<>> /\ listeners = <<>>

\* A background listener goes from started or serving to failed.
BackgroundFailure ==
    \E i \in 1..Len(listeners) :
        /\ listeners[i].bg
        /\ listeners[i].status # "failed"
        /\ listeners'[i].status = "failed"

\* C16: the step in which a background listener fails changes neither the
\* position of main, nor the launcher state, nor the exit code, nor the
\* signal channel; and in insecure mode main leaves its wait only after an
\* interrupt was sent, whatever became of the listener.
C16_BackgroundFailureUnobserved ==
    /\ [][BackgroundFailure =>
            /\ pc' = pc /\ exit' = exit /\ trail' = trail
            /\ sigNotify' = sigNotify /\ sigChan' = sigChan]_vars
    /\ [][(~cfg.UseLeHTTPS /\ pc = "wait" /\ pc' # pc) =>
            sigAt # "none"]_vars

\* Insecure mode: the only listener has failed and main is still waiting.
C16_Witness ==
    /\ ~cfg.UseLeHTTPS /\ pc = "wait" /\ Running /\ sigAt = "none"
    /\ Len(listeners) = 1 /\ listeners[1].status = "failed"

\* C17 (as claimed): in local-directory mode the templates compiled are the
\* files of the directory named by cfg.TemplatesDir, whatever that name is.
C17_ConfiguredDirCompiled ==
    (cfg.TemplatesDir # "" /\ faucetTemplates # <<>>) =>
        faucetTemplates[1].body = fsys[cfg.TemplatesDir]

\* The router has a route for this path, these methods and this handler.
HasRoute(tpl, methods, h) ==
    \E i \in 1..Len(routes) : routes[i] = Route("path", tpl, methods, h)

\* C19: in a run that has reached RoutesRegistered the router has the home
\* route (POST, GET) and the info route (GET), and it has a tools route
\* (POST, GET) exactly when DisableGenerateInvoices and DisablePayInvoices
\* are not both set.
C19_BusinessRoutes ==
    (\E i \in 1..Len(trail) : trail[i] = "RoutesRegistered") =>
        /\ HasRoute("/", {"POST", "GET"}, "faucetHome")
        /\ HasRoute("/info", {"GET"}, "infoPage")
        /\ (\E i \in 1..Len(routes) : routes[i].tpl = "/tools")
              = ~(cfg.DisableGenerateInvoices /\ cfg.DisablePayInvoices)
        /\ \A i \in 1..Len(routes) :
              routes[i].tpl = "/tools" =>
                 routes[i] = Route("path", "/tools", {"POST", "GET"},
                                   "toolsPage")

\* One of the two actions is disabled and the tools route is there.
C19_Witness ==
    /\ LauncherState = "RoutesRegistered"
    /\ cfg.DisableGenerateInvoices /\ ~cfg.DisablePayInvoices
    /\ HasRoute("/tools", {"POST", "GET"}, "toolsPage")

----------------------------------------------------------------------------
(* A claim about shared state, checked under SpecStatic. *)

\* C18: once the launcher is Listening, every step that is not a call of
\* static.Add (a step of main, of a listener, or of a request handler)
\* leaves the store, the template set and the routes as they are.
C18_ReadOnlyOnceListening ==
    [][(LauncherState \in {"Listening", "ShuttingDown"}
            /\ addLog' = addLog) =>
         /\ assets' = assets /\ templates' = templates
         /\ faucetTemplates' = faucetTemplates
         /\ routes' = routes]_vars

\* A request was answered from the store while main is blocked.
C18_Witness ==
    /\ LauncherState = "Listening"
    /\ Answered /\ resp[1].src = "store" /\ resp[1].body = CssBody
    /\ faucetTemplates # <<>> /\ routes # <<>>

====
